---- MODULE Spec2Model ----
(***************************************************************************)
(* Model of core/convert.rs: the ToV8 / FromV8 conversions between native  *)
(* values and engine (V8) values: Smi<T>, Number<T>, bool and Vec<T>.      *)
(*                                                                         *)
(* A native integer is kept as its value modulo 2^64, written as two       *)
(* 32-bit halves [hi, lo], each half read as a signed 32-bit number, so    *)
(* that 2^32 + 5 is [hi |-> 1, lo |-> 5] and u32::MAX is [hi |-> 0,        *)
(* lo |-> -1].  Rust's integer `as` casts act on exactly this pattern.     *)
(***************************************************************************)
EXTENDS Integers, Sequences, FiniteSets, TLC

VARIABLES
  pc,       \* position of the call in progress
  fn,       \* the conversion being run (or last run)
  ty,       \* the native type parameter T of that conversion
  arg,      \* its argument: a native value (to_v8) or an engine value (from_v8)
  ret,      \* its result: Ok(value) / Err(error), NoRet while running
  origin,   \* for a from_v8 call fed with the result of a to_v8 call: that call
  buf,      \* Vec::to_v8: engine values collected so far
  idx,      \* Vec::to_v8: position of the iterator
  toCalls,  \* Vec::to_v8: indices whose element to_v8 has been called
  arrays,   \* Vec::to_v8: calls of v8::Array::new_with_elements, with their arguments
  out,      \* Vec::from_v8: the MaybeUninit buffer
  i,        \* Vec::from_v8: loop index
  j,        \* Vec::from_v8: rollback index
  err,      \* Vec::from_v8: the element error being propagated
  gets,     \* Vec::from_v8: indices read with get_index
  convs,    \* Vec::from_v8: indices whose element from_v8 has been called
  writes,   \* Vec::from_v8: number of MaybeUninit::write calls per slot
  drops,    \* Vec::from_v8: number of assume_init_drop calls per slot
  badDrop,  \* Vec::from_v8: an uninitialized slot was dropped
  transmuted \* Vec::from_v8: transmute_vec was called with all slots initialized?

vars == <<pc, fn, ty, arg, ret, origin, buf, idx, toCalls, arrays,
          out, i, j, err, gets, convs, writes, drops, badDrop, transmuted>>

(***************************************************************************)
(* Bounds                                                                  *)
(***************************************************************************)
MaxLen == 3

(***************************************************************************)
(* Native integers                                                         *)
(***************************************************************************)
I32Min == -2147483647 - 1
I32Max == 2147483647

SmallIntTypes == {"u8", "u16", "u32", "u64", "usize", "i8", "i16", "i32", "i64", "isize"}

NumericTypes == {"f32", "f64", "u32", "u64", "usize", "i32", "i64", "isize"}

Width(t) ==
  CASE t \in {"u8", "i8"} -> 8
    [] t \in {"u16", "i16"} -> 16
    [] t \in {"u32", "i32"} -> 32
    [] OTHER -> 64

Signed(t) == t \in {"i8", "i16", "i32", "i64", "isize"}

Pow2(w) == CASE w = 8 -> 256 [] w = 16 -> 65536

SignFill(x) == IF x < 0 THEN -1 ELSE 0

Pat(h, l) == [hi |-> h, lo |-> l]

\* variant: one name for every type
NAME_Fixed(t) == "i32"

\* the NAME constant: stringify!($t)
NAME(t) == t

\* variant: a value outside the i32 range saturates
as_i32_saturating(t, v) ==
  IF v.hi = SignFill(v.lo) THEN v.lo
  ELSE IF v.hi < 0 THEN I32Min ELSE I32Max

\* as_i32: `self as i32` keeps the low 32 bits
as_i32(t, v) == v.lo

\* from_i32: `value as T` truncates to T's width, or sign-extends the i32
from_i32(t, x) ==
  IF Width(t) = 64 THEN Pat(SignFill(x), x)
  ELSE IF Width(t) = 32 THEN Pat(IF Signed(t) THEN SignFill(x) ELSE 0, x)
  ELSE LET m == x % Pow2(Width(t))
           s == IF Signed(t) /\ 2 * m >= Pow2(Width(t)) THEN m - Pow2(Width(t)) ELSE m
       IN  Pat(SignFill(s), s)

(***************************************************************************)
(* Engine values, results and errors                                       *)
(***************************************************************************)
\* An engine value.  Numbers are the integral doubles of the i32 range (a
\* v8::Integer and a v8::Number of the same value are the same JS number).
\* "absent" marks an array index whose indexed read yields no value
\* (get_index returns None: the read threw).
EV(k, n, es) == [kind |-> k, n |-> n, elems |-> es]

Num(n) == EV("number", n, <<>>)

Bool(b) == EV("boolean", IF b THEN 1 ELSE 0, <<>>)

Undefined == EV("undefined", 0, <<>>)

Str(n) == EV("string", n, <<>>)

Absent == EV("absent", 0, <<>>)

Arr(es) == EV("array", 0, es)

NoVal == "none"

NoErr == [class |-> "", msg |-> "", wraps |-> 0]

Ok(v) == [tag |-> "Ok", val |-> v, err |-> NoErr]

Err(e) == [tag |-> "Err", val |-> NoVal, err |-> e]

Panic == [tag |-> "Panic", val |-> NoVal, err |-> NoErr]

NoRet == [tag |-> "None", val |-> NoVal, err |-> NoErr]

Some(v) == [some |-> TRUE, v |-> v]

None == [some |-> FALSE, v |-> NoVal]

\* crate::error::type_error(message)
type_error(m) == [class |-> "TypeError", msg |-> m, wraps |-> 0]

\* variant: the element error replaced by a generic one
WrapErr_Opaque(e) == [class |-> "Error", msg |-> "element conversion failed", wraps |-> 1]

\* AnyError::from(e).into(): the element error boxed into the common error
\* type, keeping its class and message
WrapErr(e) == [class |-> e.class, msg |-> e.msg, wraps |-> e.wraps + 1]

\* runtime::ops::to_i32_option: the number as i32, None for any other kind
to_i32_option(value) ==
  IF value.kind = "number" THEN Some(value.n) ELSE None

\* runtime::ops::to_{f32,f64,u32,u64,i32,i64}_option: the number read as the
\* numeric kind of t, None for any other kind
to_num_option(t, value) ==
  IF value.kind = "number"
    THEN Some(Pat(IF t = "u32" THEN 0 ELSE SignFill(value.n), value.n))
    ELSE None

\* v8::Value::is_true: the value is the boolean `true` (no coercion)
is_true(value) == value.kind = "boolean" /\ value.n = 1

\* v8::Local::<v8::Array>::try_from(value)
IsArray(value) == value.kind = "array"

\* arr.get_index(scope, k): k counts from 0
get_index(arr, k) ==
  IF arr.elems[k + 1].kind = "absent" THEN None ELSE Some(arr.elems[k + 1])

(***************************************************************************)
(* Primitive adapters                                                      *)
(***************************************************************************)
\* <Smi<T> as ToV8>::to_v8
SmiToV8(t, v) == Ok(Num(as_i32(t, v)))

\* <Smi<T> as FromV8>::from_v8
SmiFromV8(t, value) ==
  LET v == to_i32_option(value)
  IN  IF v.some THEN Ok(from_i32(t, v.v))
      ELSE Err(type_error("Expected " \o NAME(t)))

\* Numeric::from_value: $from(value).map(|v| v as _)
from_value(t, value) == to_num_option(t, value)

\* <Number<T> as FromV8>::from_v8
NumberFromV8(t, value) ==
  LET v == from_value(t, value)
  IN  IF v.some THEN Ok(v.v)
      ELSE Err(type_error("Expected " \o NAME(t)))

\* <bool as ToV8>::to_v8
BoolToV8(b) == Ok(Bool(b))

\* the engine's truthiness rule (ToBoolean)
Truthy(value) ==
  CASE value.kind = "boolean" -> value.n = 1
    [] value.kind \in {"number", "string"} -> value.n # 0
    [] value.kind = "undefined" -> FALSE
    [] OTHER -> TRUE

\* variant: the value coerced with the truthiness rule
BoolFromV8_Coerce(value) == Ok(Truthy(value))

\* <bool as FromV8>::from_v8
BoolFromV8(value) == Ok(is_true(value))

(***************************************************************************)
(* Element adapters of Vec<T>                                              *)
(***************************************************************************)
\* T of Vec<T>: Smi<t>, Number<t>, bool, Vec<Smi<t>> (fam "Vec"), or a
\* user-defined T whose to_v8 can fail (fam "User")
Ad(f, t) == [fam |-> f, t |-> t]

\* a user-defined `impl ToV8 for T` with its own Error type: an invalid value
\* fails with an error naming it, a valid one is passed as a Smi
UserToV8(x) ==
  IF x.ok THEN SmiToV8("i32", x.v)
  ELSE Err([class |-> "UserError", msg |-> "invalid " \o ToString(x.v.lo), wraps |-> 0])

\* T::to_v8 of the element type
ElemToV8(ad, x) ==
  CASE ad.fam = "Smi" -> SmiToV8(ad.t, x)
    [] ad.fam = "bool" -> BoolToV8(x)
    [] ad.fam = "User" -> UserToV8(x)

\* v8::Array::new_with_elements(scope, &buf)
new_with_elements(es) == Arr(es)

\* T::from_v8 of a scalar element type
ScalarFromV8(ad, value) ==
  CASE ad.fam = "Smi" -> SmiFromV8(ad.t, value)
    [] ad.fam = "Number" -> NumberFromV8(ad.t, value)
    [] ad.fam = "bool" -> BoolFromV8(value)

\* the message of try_from's DataError, as formatted by {e}
DataErrorText == "Array expected"

\* <Vec<T> as FromV8>::from_v8 as a function of its argument, for a scalar T:
\* the loop stops at the first index whose read or conversion fails
VecFromV8(ad, value) ==
  IF ~IsArray(value)
    THEN Err(type_error("Failed to convert from V8: " \o DataErrorText))
    ELSE LET len == Len(value.elems)
             Conv(k) == ScalarFromV8(ad, get_index(value, k).v)
             Stops(k) == ~get_index(value, k).some \/ Conv(k).tag # "Ok"
             bad == {k \in 0..(len - 1) : Stops(k)}
         IN  IF bad = {} THEN Ok([k \in 1..len |-> Conv(k - 1).val])
             ELSE LET f == CHOOSE k \in bad : \A m \in bad : k <= m
                  IN  IF ~get_index(value, f).some THEN Panic
                      ELSE Err(WrapErr(Conv(f).err))

\* T::from_v8 of the element type
ElemFromV8(ad, value) ==
  IF ad.fam = "Vec" THEN VecFromV8(Ad("Smi", ad.t), value)
  ELSE ScalarFromV8(ad, value)

(***************************************************************************)
(* The uninitialized buffer                                                *)
(***************************************************************************)
Slot(st, v) == [st |-> st, v |-> v]

\* maybe_uninit_vec::<T>(len): len slots, none initialized
maybe_uninit_vec(len) == [k \in 1..len |-> Slot("uninit", NoVal)]

\* out[k].write(v), k counting from 0
SlotWrite(o, k, v) == [o EXCEPT ![k + 1] = Slot("init", v)]

\* out[k].assume_init_drop(), k counting from 0
SlotDrop(o, k) == [o EXCEPT ![k + 1] = Slot("dropped", NoVal)]

\* variant: the length taken one short
transmute_vec_short(o) == [k \in 1..(Len(o) - 1) |-> o[k].v]

\* transmute_vec::<MaybeUninit<T>, T>(out): the same memory, every slot read
\* as an initialized T
transmute_vec(o) == [k \in 1..Len(o) |-> o[k].v]

AllInit(o) == \A k \in 1..Len(o) : o[k].st = "init"

(***************************************************************************)
(* Inputs                                                                  *)
(***************************************************************************)
LoInputs == {I32Min, -129, -128, -1, 0, 5, 127, 128, 255, 256, 65535, 65536, I32Max}

HiInputs == {-1, 0, 1}

\* the values of the native type t
IsValueOf(t, v) ==
  CASE Width(t) = 64 -> TRUE
    [] Width(t) = 32 -> v.hi = (IF Signed(t) THEN SignFill(v.lo) ELSE 0)
    [] OTHER -> /\ v.hi = SignFill(v.lo)
                /\ IF Signed(t)
                     THEN v.lo >= -(Pow2(Width(t)) \div 2) /\ v.lo < Pow2(Width(t)) \div 2
                     ELSE v.lo >= 0 /\ v.lo < Pow2(Width(t))

NativeInts(t) == {v \in [hi : HiInputs, lo : LoInputs] : IsValueOf(t, v)}

ScalarInputs ==
  {Num(n) : n \in {I32Min, -1, 0, 1, 5, 300, I32Max}}
    \cup {Bool(TRUE), Bool(FALSE), Undefined, Str(0), Str(3), Arr(<<>>)}

ElemInputs ==
  {Num(1), Num(300), Bool(TRUE), Str(1), Absent, Arr(<<Num(7)>>), Arr(<<Str(1)>>)}

SeqsOf(S) == UNION {[1..n -> S] : n \in 0..MaxLen}

VecInputs == {Arr(es) : es \in SeqsOf(ElemInputs)} \cup {Num(1), Undefined}

FromAdapters ==
  {Ad("Smi", "i32"), Ad("Smi", "u8"), Ad("Number", "u32"), Ad("bool", ""), Ad("Vec", "i32")}

SmiElems == {Pat(SignFill(n), n) : n \in {-1, 0, 5}}

UserElems == {[ok |-> b, v |-> Pat(0, n)] : b \in BOOLEAN, n \in {1, 2}}

NoOrigin == [fn |-> "none", ty |-> "", arg |-> NoVal]

(***************************************************************************)
(* State                                                                   *)
(***************************************************************************)
Fresh ==
  /\ buf = <<>> /\ idx = 0 /\ toCalls = {} /\ arrays = <<>>
  /\ out = <<>> /\ i = 0 /\ j = 0 /\ err = NoErr /\ gets = {} /\ convs = {}
  /\ writes = <<>> /\ drops = <<>> /\ badDrop = FALSE /\ transmuted = "no"

Init ==
  /\ pc = "idle" /\ fn = "none" /\ ty = "" /\ arg = NoVal /\ ret = NoRet
  /\ origin = NoOrigin
  /\ Fresh

\* the per-call bookkeeping of a call that starts
FreshNext ==
  /\ buf' = <<>> /\ idx' = 0 /\ toCalls' = {} /\ arrays' = <<>>
  /\ out' = <<>> /\ i' = 0 /\ j' = 0 /\ err' = NoErr /\ gets' = {} /\ convs' = {}
  /\ writes' = <<>> /\ drops' = <<>> /\ badDrop' = FALSE /\ transmuted' = "no"

\* a call on fresh inputs starts from the idle state: no state survives a call,
\* so a call after a return behaves as the same call from Init
CanCall == pc = "idle"

\* the previous call was an outbound conversion that returned Ok: its result
\* may be passed to an inbound conversion
CanChain == pc = "returned" /\ fn \in {"Smi::to_v8", "bool::to_v8", "Vec::to_v8"} /\ ret.tag = "Ok"

ThisCall == [fn |-> fn, ty |-> ty, arg |-> arg]

\* a call that runs in one step
Atomic(f, t, a, r, o) ==
  /\ pc' = "returned" /\ fn' = f /\ ty' = t /\ arg' = a /\ ret' = r /\ origin' = o
  /\ FreshNext

(***************************************************************************)
(* Primitive conversions                                                   *)
(***************************************************************************)
CallSmiToV8 ==
  /\ CanCall
  /\ \E t \in SmallIntTypes : \E v \in NativeInts(t) :
       Atomic("Smi::to_v8", t, v, SmiToV8(t, v), NoOrigin)

CallSmiFromV8 ==
  \E t \in SmallIntTypes :
       \/ /\ CanCall
          /\ \E value \in ScalarInputs :
            Atomic("Smi::from_v8", t, value, SmiFromV8(t, value), NoOrigin)
       \/ /\ CanChain
          /\ Atomic("Smi::from_v8", t, ret.val, SmiFromV8(t, ret.val), ThisCall)

CallNumberFromV8 ==
  /\ CanCall
  /\ \E t \in NumericTypes : \E value \in ScalarInputs :
       Atomic("Number::from_v8", t, value, NumberFromV8(t, value), NoOrigin)

CallBoolToV8 ==
  /\ CanCall
  /\ \E b \in BOOLEAN : Atomic("bool::to_v8", "bool", b, BoolToV8(b), NoOrigin)

CallBoolFromV8 ==
     \/ /\ CanCall
        /\ \E value \in ScalarInputs :
          Atomic("bool::from_v8", "bool", value, BoolFromV8(value), NoOrigin)
     \/ /\ CanChain
        /\ Atomic("bool::from_v8", "bool", ret.val, BoolFromV8(ret.val), ThisCall)

(***************************************************************************)
(* <Vec<T> as ToV8>::to_v8                                                 *)
(***************************************************************************)
FromUnchanged == UNCHANGED <<out, i, j, err, gets, convs, writes, drops, badDrop, transmuted>>

ToUnchanged == UNCHANGED <<buf, idx, toCalls, arrays>>

\* entry: self.into_iter().map(..).collect() starts with nothing converted
VecToV8Begin ==
  /\ CanCall
  /\ \E ad \in {Ad("Smi", "i32"), Ad("User", "")} :
       \E seq \in SeqsOf(IF ad.fam = "Smi" THEN SmiElems ELSE UserElems) :
          /\ pc' = "to_iter" /\ fn' = "Vec::to_v8" /\ ty' = ad /\ arg' = seq
          /\ ret' = NoRet /\ origin' = NoOrigin
          /\ FreshNext

\* variant: the converted element put in front of the collected ones
VecToV8Next_Prepend ==
  /\ pc = "to_iter" /\ idx < Len(arg)
  /\ LET r == ElemToV8(ty, arg[idx + 1])
     IN  /\ toCalls' = toCalls \cup {idx}
         /\ IF r.tag = "Ok"
              THEN /\ buf' = <<r.val>> \o buf /\ idx' = idx + 1
                   /\ UNCHANGED <<pc, ret>>
              ELSE /\ pc' = "returned" /\ ret' = Err(r.err)
                   /\ UNCHANGED <<buf, idx>>
  /\ UNCHANGED <<fn, ty, arg, origin, arrays>>
  /\ FromUnchanged

\* one step of collect::<Result<Vec<_>, _>>(): convert the next element; the
\* first Err ends the iteration and is returned by `?`
VecToV8Next ==
  /\ pc = "to_iter" /\ idx < Len(arg)
  /\ LET r == ElemToV8(ty, arg[idx + 1])
     IN  /\ toCalls' = toCalls \cup {idx}
         /\ IF r.tag = "Ok"
              THEN /\ buf' = Append(buf, r.val) /\ idx' = idx + 1
                   /\ UNCHANGED <<pc, ret>>
              ELSE /\ pc' = "returned" /\ ret' = Err(r.err)
                   /\ UNCHANGED <<buf, idx>>
  /\ UNCHANGED <<fn, ty, arg, origin, arrays>>
  /\ FromUnchanged

\* variant: the array built from whatever has been converted so far
VecToV8Finish_Early ==
  /\ pc = "to_iter"
  /\ arrays' = Append(arrays, buf)
  /\ ret' = Ok(new_with_elements(buf))
  /\ pc' = "returned"
  /\ UNCHANGED <<fn, ty, arg, origin, buf, idx, toCalls>>
  /\ FromUnchanged

\* every element converted: Ok(v8::Array::new_with_elements(scope, &buf).into())
VecToV8Finish ==
  /\ pc = "to_iter" /\ idx = Len(arg)
  /\ arrays' = Append(arrays, buf)
  /\ ret' = Ok(new_with_elements(buf))
  /\ pc' = "returned"
  /\ UNCHANGED <<fn, ty, arg, origin, buf, idx, toCalls>>
  /\ FromUnchanged

(***************************************************************************)
(* <Vec<T> as FromV8>::from_v8                                             *)
(***************************************************************************)
\* entry: try_from, arr.length(), maybe_uninit_vec
VecFromV8Enter(ad, value, o) ==
  /\ fn' = "Vec::from_v8" /\ ty' = ad /\ arg' = value /\ origin' = o
  /\ buf' = <<>> /\ idx' = 0 /\ toCalls' = {} /\ arrays' = <<>>
  /\ i' = 0 /\ j' = 0 /\ err' = NoErr /\ gets' = {} /\ convs' = {}
  /\ badDrop' = FALSE /\ transmuted' = "no"
  /\ IF ~IsArray(value)
       THEN /\ ret' = Err(type_error("Failed to convert from V8: " \o DataErrorText))
            /\ pc' = "returned"
            /\ out' = <<>> /\ writes' = <<>> /\ drops' = <<>>
       ELSE /\ ret' = NoRet
            /\ pc' = "from_loop"
            /\ out' = maybe_uninit_vec(Len(value.elems))
            /\ writes' = [k \in 1..Len(value.elems) |-> 0]
            /\ drops' = [k \in 1..Len(value.elems) |-> 0]

VecFromV8Begin ==
  \E ad \in FromAdapters :
       \/ /\ CanCall
          /\ \E value \in VecInputs : VecFromV8Enter(ad, value, NoOrigin)
       \/ /\ CanChain
          /\ VecFromV8Enter(ad, ret.val, ThisCall)

\* one iteration of `for i in 0..len`
VecFromV8Iter ==
  /\ pc = "from_loop" /\ i < Len(out)
  /\ gets' = gets \cup {i}
  /\ LET g == get_index(arg, i)
     IN  IF ~g.some
           THEN \* .unwrap() on None panics
                /\ pc' = "panicked" /\ ret' = Panic
                /\ UNCHANGED <<out, i, j, err, convs, writes>>
           ELSE LET r == ElemFromV8(ty, g.v)
                IN  /\ convs' = convs \cup {i}
                    /\ CASE r.tag = "Ok" ->
                              /\ out' = SlotWrite(out, i, r.val)
                              /\ writes' = [writes EXCEPT ![i + 1] = @ + 1]
                              /\ i' = i + 1
                              /\ UNCHANGED <<pc, ret, j, err>>
                         [] r.tag = "Err" ->
                              /\ err' = r.err /\ j' = 0 /\ pc' = "from_rollback"
                              /\ UNCHANGED <<out, i, ret, writes>>
                         [] OTHER ->
                              /\ pc' = "panicked" /\ ret' = Panic
                              /\ UNCHANGED <<out, i, j, err, writes>>
  /\ UNCHANGED <<fn, ty, arg, origin, drops, badDrop, transmuted>>
  /\ ToUnchanged

\* variant: the rollback running over 0..=i
VecFromV8Drop_Inclusive ==
  /\ pc = "from_rollback" /\ j <= i
  /\ badDrop' = (badDrop \/ out[j + 1].st # "init")
  /\ out' = SlotDrop(out, j)
  /\ drops' = [drops EXCEPT ![j + 1] = @ + 1]
  /\ j' = j + 1
  /\ UNCHANGED <<pc, fn, ty, arg, ret, origin, i, err, gets, convs, writes, transmuted>>
  /\ ToUnchanged

\* one iteration of `for j in 0..i`: out[j].assume_init_drop()
VecFromV8Drop ==
  /\ pc = "from_rollback" /\ j < i
  /\ badDrop' = (badDrop \/ out[j + 1].st # "init")
  /\ out' = SlotDrop(out, j)
  /\ drops' = [drops EXCEPT ![j + 1] = @ + 1]
  /\ j' = j + 1
  /\ UNCHANGED <<pc, fn, ty, arg, ret, origin, i, err, gets, convs, writes, transmuted>>
  /\ ToUnchanged

\* variant: the rollback left one slot early
VecFromV8Fail_Early ==
  /\ pc = "from_rollback" /\ j + 1 >= i
  /\ ret' = Err(WrapErr(err))
  /\ pc' = "returned"
  /\ UNCHANGED <<fn, ty, arg, origin, out, i, j, err, gets, convs, writes, drops,
                 badDrop, transmuted>>
  /\ ToUnchanged

\* return Err(AnyError::from(e).into())
VecFromV8Fail ==
  /\ pc = "from_rollback" /\ j = i
  /\ ret' = Err(WrapErr(err))
  /\ pc' = "returned"
  /\ UNCHANGED <<fn, ty, arg, origin, out, i, j, err, gets, convs, writes, drops,
                 badDrop, transmuted>>
  /\ ToUnchanged

\* the loop is over: transmute_vec and Ok(out)
VecFromV8Finish ==
  /\ pc = "from_loop" /\ i = Len(out)
  /\ transmuted' = (IF AllInit(out) THEN "sound" ELSE "unsound")
  /\ ret' = Ok(transmute_vec(out))
  /\ pc' = "returned"
  /\ UNCHANGED <<fn, ty, arg, origin, out, i, j, err, gets, convs, writes, drops, badDrop>>
  /\ ToUnchanged

Next ==
  \/ CallSmiToV8
  \/ CallSmiFromV8
  \/ CallNumberFromV8
  \/ CallBoolToV8
  \/ CallBoolFromV8
  \/ VecToV8Begin
  \/ VecToV8Next
  \/ VecToV8Finish
  \/ VecFromV8Begin
  \/ VecFromV8Iter
  \/ VecFromV8Drop
  \/ VecFromV8Fail
  \/ VecFromV8Finish

Spec == Init /\ [][Next]_vars

(***************************************************************************)
(* Properties                                                              *)
(***************************************************************************)
Returned(f) == pc = "returned" /\ fn = f

\* the inbound sequence conversion returned an element's failure
ElemFailed == Returned("Vec::from_v8") /\ ret.tag = "Err" /\ IsArray(arg)

\* the element at index k (from 0) of the array can be read and fails to convert
FailsAt(k) ==
  /\ get_index(arg, k).some
  /\ ElemFromV8(ty, get_index(arg, k).v).tag = "Err"

\* the lowest index whose element fails to convert
FirstFail == CHOOSE k \in 0..(Len(arg.elems) - 1) :
               FailsAt(k) /\ \A m \in 0..(k - 1) : ~FailsAt(m)

\* C1: when the element conversion of Vec<T>::from_v8 first fails at index i,
\* at the return every slot below i has been released exactly once, no slot
\* at i or above has been released, and no slot is left initialized; and in
\* no state of the call has a slot been released twice or released unwritten.
C1_RollbackReleasesPrefixOnce ==
  /\ fn = "Vec::from_v8" =>
       \A k \in 1..Len(out) : drops[k] <= 1 /\ drops[k] <= writes[k]
  /\ ElemFailed =>
       /\ i = FirstFail
       /\ \A k \in 0..(Len(out) - 1) :
            /\ drops[k + 1] = (IF k < i THEN 1 ELSE 0)
            /\ out[k + 1].st # "init"

C1_Witness ==
  /\ ElemFailed /\ Len(out) = 3 /\ i = 2
  /\ drops = <<1, 1, 0>>

\* C2: when every element converts, Vec<T>::from_v8 returns n elements, the
\* one at position k being the conversion of the array's element k; an empty
\* array gives the empty sequence with no element read or converted.
C2_SuccessKeepsLengthAndOrder ==
  (Returned("Vec::from_v8") /\ IsArray(arg)) =>
    LET n == Len(arg.elems)
        allOk == \A k \in 0..(n - 1) :
                   /\ get_index(arg, k).some
                   /\ ElemFromV8(ty, get_index(arg, k).v).tag = "Ok"
    IN  /\ allOk <=> ret.tag = "Ok"
        /\ ret.tag = "Ok" =>
             /\ Len(ret.val) = n
             /\ \A k \in 1..n : ret.val[k] = ElemFromV8(ty, arg.elems[k]).val
        /\ n = 0 => ret = Ok(<<>>) /\ gets = {} /\ convs = {}

C2_Witness ==
  /\ Returned("Vec::from_v8") /\ ret.tag = "Ok" /\ Len(ret.val) = 3
  /\ arg.elems[1] # arg.elems[2]
  /\ ty = Ad("Smi", "u8")

\* C3: an element failure of Vec<T>::from_v8 returns the wrapped error of the
\* lowest-index failing element, returns no sequence, and neither reads nor
\* converts any element above that index.
C3_FirstElementErrorWrapped ==
  ElemFailed =>
    /\ LET e == ElemFromV8(ty, arg.elems[FirstFail + 1]).err
       IN  /\ ret.err.class = e.class /\ ret.err.msg = e.msg
           /\ ret.err.wraps = e.wraps + 1
    /\ ret.val = NoVal
    /\ gets = 0..FirstFail
    /\ convs = 0..FirstFail

C3_Witness ==
  /\ ElemFailed /\ Len(arg.elems) = 3 /\ FirstFail = 1
  /\ FailsAt(2)
  /\ ElemFromV8(ty, arg.elems[3]).err # ElemFromV8(ty, arg.elems[2]).err

FirstToFail == CHOOSE k \in 0..(Len(arg) - 1) :
                 /\ ElemToV8(ty, arg[k + 1]).tag = "Err"
                 /\ \A m \in 0..(k - 1) : ElemToV8(ty, arg[m + 1]).tag = "Ok"

\* C5: Vec<T>::to_v8 whose element i is the first to fail returns exactly that
\* element's error, converts no element above i and allocates no engine
\* array; the array is allocated only once all elements converted, once, with
\* the converted elements in the original order.
C5_OutboundStopsAtFirstError ==
  fn = "Vec::to_v8" =>
    /\ pc = "to_iter" => arrays = <<>>
    /\ (pc = "returned" /\ ret.tag = "Err") =>
         /\ ret.err = ElemToV8(ty, arg[FirstToFail + 1]).err
         /\ toCalls = 0..FirstToFail
         /\ arrays = <<>>
    /\ (pc = "returned" /\ ret.tag = "Ok") =>
         /\ \A k \in 1..Len(arg) : ElemToV8(ty, arg[k]).tag = "Ok"
         /\ arrays = << [k \in 1..Len(arg) |-> ElemToV8(ty, arg[k]).val] >>
         /\ ret.val = Arr(arrays[1])

C5_Witness ==
  /\ Returned("Vec::to_v8") /\ ret.tag = "Err"
  /\ Len(arg) = 3 /\ FirstToFail = 1
  /\ ~arg[3].ok /\ arg[3] # arg[2]

\* C6: Smi(v).to_v8 read back with Smi<T>::from_v8 never fails and yields the
\* low 32 bits of v, taken as a signed 32-bit number, cast to T: truncated to
\* T's width, or sign-extended to 64 bits; the u64 value 2^32 + 5 read back as
\* u32 is 5.
C6_SmiRoundTripWraps ==
  (Returned("Smi::from_v8") /\ origin.fn = "Smi::to_v8") =>
    LET v == origin.arg
        r == ret.val
    IN  /\ ret.tag = "Ok"
        /\ IsValueOf(ty, r)
        /\ IF Width(ty) >= 32
             THEN r.lo = v.lo /\ (Width(ty) = 64 => r.hi = SignFill(v.lo))
             ELSE r.lo % Pow2(Width(ty)) = v.lo % Pow2(Width(ty))
        /\ (origin.ty = "u64" /\ v = Pat(1, 5) /\ ty = "u32") => r = Pat(0, 5)

C6_Witness ==
  /\ Returned("Smi::from_v8") /\ origin.fn = "Smi::to_v8"
  /\ origin.ty = "u64" /\ origin.arg = Pat(1, 5)
  /\ ty = "u32" /\ ret = Ok(Pat(0, 5))

\* C7: Smi<T>::from_v8 and Number<T>::from_v8 fail exactly when the engine's
\* read of the value as the numeric kind returns no value, with a type error
\* whose message is "Expected " followed by the name of T; otherwise they
\* succeed with the value read (for Smi<T>: the i32 read, cast to T).
C7_NumericMismatchNamesType ==
  /\ Returned("Smi::from_v8") =>
       LET read == to_i32_option(arg)
       IN  IF read.some
             THEN /\ ret.tag = "Ok"
                  /\ IsValueOf(ty, ret.val)
                  /\ IF Width(ty) >= 32 THEN ret.val.lo = read.v
                     ELSE ret.val.lo % Pow2(Width(ty)) = read.v % Pow2(Width(ty))
             ELSE ret = Err([class |-> "TypeError", msg |-> "Expected " \o ty, wraps |-> 0])
  /\ Returned("Number::from_v8") =>
       LET read == to_num_option(ty, arg)
       IN  IF read.some
             THEN ret = Ok(read.v)
             ELSE ret = Err([class |-> "TypeError", msg |-> "Expected " \o ty, wraps |-> 0])

C7_Witness ==
  /\ Returned("Number::from_v8") /\ ty = "u32" /\ arg = Str(3)
  /\ ret.tag = "Err" /\ ret.err.msg = "Expected u32"

\* C8 as stated: no conversion call ends in a fatal outcome; when the indexed
\* read of an element yields no value, Vec<T>::from_v8 returns an error.
C8_NoFatalOutcome == pc # "panicked"

\* C9: for a sequence of i32 values, Vec::to_v8 followed by Vec::from_v8
\* returns a sequence equal to it.
C9_I32SequenceRoundTrip ==
  (/\ fn = "Vec::from_v8" /\ origin.fn = "Vec::to_v8"
   /\ pc \in {"returned", "panicked"}
   /\ origin.ty = Ad("Smi", "i32") /\ ty = Ad("Smi", "i32")) =>
    ret = Ok(origin.arg)

C9_Witness ==
  /\ Returned("Vec::from_v8") /\ origin.fn = "Vec::to_v8"
  /\ origin.ty = Ad("Smi", "i32") /\ ty = Ad("Smi", "i32")
  /\ Len(origin.arg) = 3 /\ origin.arg[1] # origin.arg[2]
  /\ ret = Ok(origin.arg)

\* C10: during Vec<T>::from_v8 the initialized slots are exactly those below
\* the loop index (during the rollback: those from the rollback index up to
\* the failing index, the ones below having been released); no slot is
\* written twice, no uninitialized slot is released, and transmute_vec is
\* reached only with every slot initialized.
C10_InitializedPrefix ==
  fn = "Vec::from_v8" =>
    /\ \A k \in 1..Len(out) : writes[k] <= 1
    /\ ~badDrop
    /\ transmuted # "unsound"
    /\ transmuted = "sound" => i = Len(out) /\ AllInit(out)
    /\ pc \in {"from_loop", "panicked"} =>
         \A k \in 0..(Len(out) - 1) :
           out[k + 1].st = (IF k < i THEN "init" ELSE "uninit")
    /\ pc = "from_rollback" =>
         \A k \in 0..(Len(out) - 1) :
           out[k + 1].st = (IF k < j THEN "dropped"
                            ELSE IF k < i THEN "init" ELSE "uninit")

C10_Witness ==
  /\ fn = "Vec::from_v8" /\ pc = "from_rollback"
  /\ Len(out) = 3 /\ i = 2 /\ j = 1

====
